---- MODULE Spec2Model ----
(***************************************************************************)
(* radix-ecmascript: f64::to_radix_str(base), the port of V8's             *)
(* DoubleToRadixCString, together with the bit helpers of f64_util.rs.     *)
(*                                                                         *)
(* A u64 / f64 is held as its 64-bit pattern.  TLC's integers are 32 bits  *)
(* wide, so a 64-bit pattern is a little-endian sequence of 24-bit limbs   *)
(* without high zero limbs (<<>> is 0).  f64 arithmetic is IEEE 754        *)
(* binary64 with round-to-nearest-even, computed exactly on such naturals  *)
(* and rounded once.                                                       *)
(***************************************************************************)
EXTENDS Integers, Sequences, FiniteSets, TLC

(***************************************************************************)
(* Naturals of arbitrary width.                                            *)
(***************************************************************************)
LIMB_BITS == 24

LIMB == 2^LIMB_BITS

Max(a, b) == IF a >= b THEN a ELSE b

Min(a, b) == IF a <= b THEN a ELSE b

\* a without its high zero limbs
Norm(a) ==
    LET nz == {i \in 1 .. Len(a) : a[i] # 0}
    IN  IF nz = {} THEN <<>>
        ELSE SubSeq(a, 1, CHOOSE i \in nz : \A j \in nz : j <= i)

Limb(a, i) == IF i >= 1 /\ i <= Len(a) THEN a[i] ELSE 0

\* n in 0 .. 2^31 - 1
BigFromInt(n) == Norm(<<n % LIMB, n \div LIMB>>)

\* a < 2^24 * 128
BigToInt(a) == Limb(a, 1) + Limb(a, 2) * LIMB

RECURSIVE AddFrom(_, _, _, _)
AddFrom(a, b, i, c) ==
    IF i > Max(Len(a), Len(b))
    THEN (IF c = 0 THEN <<>> ELSE <<c>>)
    ELSE LET s == Limb(a, i) + Limb(b, i) + c
         IN  <<s % LIMB>> \o AddFrom(a, b, i + 1, s \div LIMB)

BigAdd(a, b) == AddFrom(a, b, 1, 0)

RECURSIVE SubFrom(_, _, _, _)
SubFrom(a, b, i, c) ==
    IF i > Len(a) THEN <<>>
    ELSE LET s == Limb(a, i) - Limb(b, i) - c
         IN  IF s < 0 THEN <<s + LIMB>> \o SubFrom(a, b, i + 1, 1)
                      ELSE <<s>> \o SubFrom(a, b, i + 1, 0)

\* a - b for a >= b
BigSub(a, b) == Norm(SubFrom(a, b, 1, 0))

RECURSIVE CmpFrom(_, _, _)
CmpFrom(a, b, i) ==
    IF i = 0 THEN 0
    ELSE IF a[i] < b[i] THEN -1
    ELSE IF a[i] > b[i] THEN 1
    ELSE CmpFrom(a, b, i - 1)

\* -1, 0, 1 as a < b, a = b, a > b
BigCmp(a, b) ==
    IF Len(a) < Len(b) THEN -1
    ELSE IF Len(a) > Len(b) THEN 1
    ELSE CmpFrom(a, b, Len(a))

RECURSIVE MulFrom(_, _, _, _)
MulFrom(a, k, i, c) ==
    IF i > Len(a)
    THEN (IF c = 0 THEN <<>> ELSE <<c>>)
    ELSE LET s == a[i] * k + c
         IN  <<s % LIMB>> \o MulFrom(a, k, i + 1, s \div LIMB)

\* a * k for 0 <= k < 128
BigMulSmall(a, k) == Norm(MulFrom(a, k, 1, 0))

RECURSIVE DivFrom(_, _, _, _)
DivFrom(a, k, i, r) ==
    IF i = 0 THEN [q |-> <<>>, r |-> r]
    ELSE LET cur  == r * LIMB + a[i]
             rest == DivFrom(a, k, i - 1, cur % k)
         IN  [q |-> Append(rest.q, cur \div k), r |-> rest.r]

\* quotient and remainder of a by k, 1 <= k < 128
BigDivMod(a, k) ==
    LET d == DivFrom(a, k, Len(a), 0)
    IN  [q |-> Norm(d.q), r |-> d.r]

RECURSIVE ShlFrom(_, _, _, _)
ShlFrom(a, s, i, c) ==
    IF i > Len(a)
    THEN (IF c = 0 THEN <<>> ELSE <<c>>)
    ELSE LET hi == a[i] \div 2^(LIMB_BITS - s)
             lo == a[i] % 2^(LIMB_BITS - s)
         IN  <<lo * 2^s + c>> \o ShlFrom(a, s, i + 1, hi)

\* a * 2^n
BigShl(a, n) ==
    IF a = <<>> THEN a
    ELSE [i \in 1 .. (n \div LIMB_BITS) |-> 0] \o ShlFrom(a, n % LIMB_BITS, 1, 0)

\* a \div 2^n
BigShr(a, n) ==
    LET w == n \div LIMB_BITS
        s == n % LIMB_BITS
    IN  IF w >= Len(a) THEN <<>>
        ELSE Norm([i \in 1 .. (Len(a) - w) |->
                     (a[i + w] \div 2^s) + (Limb(a, i + w + 1) % 2^s) * 2^(LIMB_BITS - s)])

\* a % 2^n
BigLow(a, n) ==
    LET w == n \div LIMB_BITS
        s == n % LIMB_BITS
    IN  IF w >= Len(a) THEN a
        ELSE Norm([i \in 1 .. (w + 1) |-> IF i <= w THEN a[i] ELSE a[i] % 2^s])

RECURSIVE IntBitLen(_)
IntBitLen(x) == IF x = 0 THEN 0 ELSE 1 + IntBitLen(x \div 2)

BigBitLen(a) ==
    IF a = <<>> THEN 0 ELSE (Len(a) - 1) * LIMB_BITS + IntBitLen(a[Len(a)])

RECURSIVE IntAnd(_, _)
IntAnd(x, y) ==
    IF x = 0 \/ y = 0 THEN 0
    ELSE (x % 2) * (y % 2) + 2 * IntAnd(x \div 2, y \div 2)

\* bitwise and
BigAnd(a, b) == Norm([i \in 1 .. Min(Len(a), Len(b)) |-> IntAnd(a[i], b[i])])

BigOdd(a) == Limb(a, 1) % 2 = 1

\* the 64-bit pattern whose top 16 bits are h, middle 24 bits m, low 24 bits l
U64(h, m, l) == Norm(<<l, m, h>>)

(***************************************************************************)
(* f64_util.rs                                                             *)
(***************************************************************************)
K_SIGN_MASK == U64(\h8000, 0, 0)

K_EXPONENT_MASK == U64(\h7FF0, 0, 0)

K_SIGNIFICAND_MASK == U64(\h000F, \hFFFFFF, \hFFFFFF)

K_HIDDEN_BIT == U64(\h0010, 0, 0)

K_INFINITY == U64(\h7FF0, 0, 0)

K_PHYSICAL_SIGNIFICAND_SIZE == 52

K_EXPONENT_BIAS == \h3FF + K_PHYSICAL_SIGNIFICAND_SIZE

K_DENORMAL_EXPONENT == -K_EXPONENT_BIAS + 1

is_denormal(bits) == BigAnd(bits, K_EXPONENT_MASK) = <<>>

significand(bits) ==
    LET s == BigAnd(bits, K_SIGNIFICAND_MASK)
    IN  IF is_denormal(bits) THEN s ELSE BigAdd(s, K_HIDDEN_BIT)

is_pos(bits) == BigAnd(bits, K_SIGN_MASK) = <<>>

\* u64 as i32: the low 32 bits, read as two's complement
AsI32(a) ==
    LET top == Limb(a, 2) % 256
    IN  IF top >= 128 THEN (top - 256) * LIMB + Limb(a, 1)
                      ELSE top * LIMB + Limb(a, 1)

next_float(f) ==
    LET bits == f
    IN  IF bits = K_INFINITY THEN f
        ELSE IF ~is_pos(bits) /\ significand(bits) = <<>> THEN <<>>
        ELSE IF ~is_pos(bits) THEN BigSub(bits, <<1>>)
        ELSE BigAdd(bits, <<1>>)

\* `>>` binds tighter than `&`: bits & (K_EXPONENT_MASK >> 52)
exponent(f) ==
    LET bits   == f
        biased == AsI32(BigAnd(bits, BigShr(K_EXPONENT_MASK, K_PHYSICAL_SIGNIFICAND_SIZE)))
    IN  IF is_denormal(bits) THEN K_DENORMAL_EXPONENT
        ELSE biased - K_EXPONENT_BIAS

(***************************************************************************)
(* f64 arithmetic (IEEE 754 binary64, round to nearest, ties to even) as   *)
(* the operators of lib.rs use it.  Below, every operand is a pattern with *)
(* the sign bit clear and is not NaN: the code works on value = self.abs() *)
(* of a finite self, and no operation of it produces a negative or a NaN.  *)
(***************************************************************************)
ZERO == <<>>

HALF == U64(\h3FE0, 0, 0)

ONE == U64(\h3FF0, 0, 0)

\* the exponent field of the pattern
BiasedField(bits) == BigToInt(BigShr(BigAnd(bits, K_EXPONENT_MASK), K_PHYSICAL_SIGNIFICAND_SIZE))

\* the finite value m * 2^e of a pattern
Unpack(bits) ==
    [m |-> significand(bits),
     e |-> IF is_denormal(bits) THEN K_DENORMAL_EXPONENT
           ELSE BiasedField(bits) - K_EXPONENT_BIAS]

\* the pattern of the significand q (at most 53 bits) at the exponent te
PackBits(q, te) ==
    IF BigBitLen(q) <= K_PHYSICAL_SIGNIFICAND_SIZE THEN q
    ELSE IF te + K_EXPONENT_BIAS >= \h7FF THEN K_INFINITY
    ELSE BigAdd(BigShl(BigFromInt(te + K_EXPONENT_BIAS - 1), K_PHYSICAL_SIGNIFICAND_SIZE), q)

\* a significand that rounding carried to 2^53 moves up one exponent
Pack(q, te) ==
    IF BigBitLen(q) > K_PHYSICAL_SIGNIFICAND_SIZE + 1
    THEN PackBits(BigShr(q, 1), te + 1)
    ELSE PackBits(q, te)

\* q0 the kept bits, c the dropped bits compared with half a unit of q0
RoundUp(q0, c, te) ==
    Pack(IF c = 1 \/ (c = 0 /\ BigOdd(q0)) THEN BigAdd(q0, <<1>>) ELSE q0, te)

\* m * 2^e rounded to a significand at the exponent te
RoundAt(m, e, te) ==
    IF te <= e THEN Pack(BigShl(m, e - te), te)
    ELSE RoundUp(BigShr(m, te - e),
                 BigCmp(BigLow(m, te - e), BigShl(<<1>>, te - e - 1)), te)

\* the pattern of the binary64 nearest to m * 2^e (ties to even, overflow to infinity)
RoundPack(m, e) ==
    IF m = <<>> THEN ZERO
    ELSE RoundAt(m, e, Max(e + BigBitLen(m) - (K_PHYSICAL_SIGNIFICAND_SIZE + 1),
                           K_DENORMAL_EXPONENT))

\* n as f64
FromInt(n) == RoundPack(BigFromInt(n), 0)

FLt(a, b) == BigCmp(a, b) = -1

\* a comparison that always holds
FLeAlways(a, b) == TRUE

FLe(a, b) == BigCmp(a, b) <= 0

FMax(a, b) == IF FLt(a, b) THEN b ELSE a

\* extra low bits kept before the one rounding of a sum, difference or quotient
GUARD_BITS == 64

\* x + y or x - y of finite values, x.e >= y.e, exactly when the exponents are
\* at most GUARD_BITS apart; a farther y only decides the direction of rounding
\* and is one unit GUARD_BITS below x
Combine(x, y, minus) ==
    IF x.e - y.e <= GUARD_BITS
    THEN RoundPack(IF minus THEN BigSub(BigShl(x.m, x.e - y.e), y.m)
                            ELSE BigAdd(BigShl(x.m, x.e - y.e), y.m), y.e)
    ELSE RoundPack(IF y.m = <<>> THEN BigShl(x.m, GUARD_BITS)
                   ELSE IF minus THEN BigSub(BigShl(x.m, GUARD_BITS), <<1>>)
                   ELSE BigAdd(BigShl(x.m, GUARD_BITS), <<1>>), x.e - GUARD_BITS)

AddOrdered(x, y) == IF x.e >= y.e THEN Combine(x, y, FALSE) ELSE Combine(y, x, FALSE)

\* a + b
FAdd(a, b) ==
    IF a = K_INFINITY \/ b = K_INFINITY THEN K_INFINITY
    ELSE AddOrdered(Unpack(a), Unpack(b))

\* a - b for a >= b, b finite
FSub(a, b) ==
    IF a = K_INFINITY THEN K_INFINITY
    ELSE Combine(Unpack(a), Unpack(b), TRUE)

RECURSIVE TrailingZeros(_)
TrailingZeros(m) ==
    IF m = <<>> THEN 0
    ELSE IF m[1] = 0 THEN LIMB_BITS + TrailingZeros(Tail(m))
    ELSE IF m[1] % 2 = 0 THEN 1 + TrailingZeros(BigShr(m, 1))
    ELSE 0

Strip(x, t) == [k |-> BigToInt(BigShr(x.m, t)), e |-> x.e + t]

StripZeros(x) == Strip(x, TrailingZeros(x.m))

\* the value k * 2^e of a pattern with k odd; k is small for 0.5 and for a base
OddPart(bits) == StripZeros(Unpack(bits))

MulParts(x, y) == RoundPack(BigMulSmall(x.m, y.k), x.e + y.e)

\* a * b, b = k * 2^e with k < 128 (b is 0.5 or base_f64)
FMul(a, b) ==
    IF a = K_INFINITY THEN K_INFINITY
    ELSE MulParts(Unpack(a), OddPart(b))

\* the quotient d.q with its last bit sticky
Sticky(d, e) == RoundPack(BigAdd(BigShl(d.q, 1), IF d.r = 0 THEN <<>> ELSE <<1>>), e)

DivParts(x, y) ==
    Sticky(BigDivMod(BigShl(x.m, GUARD_BITS), y.k), x.e - y.e - GUARD_BITS - 1)

\* a loop body without its division
FDivSkipped(a, b) == a

\* a / b, b = k * 2^e with k < 128 (b is base_f64)
FDiv(a, b) ==
    IF a = K_INFINITY THEN K_INFINITY
    ELSE DivParts(Unpack(a), OddPart(b))

FloorParts(a, x) == IF x.e >= 0 THEN a ELSE RoundPack(BigShr(x.m, -x.e), 0)

\* a.floor()
FFloor(a) == IF a = K_INFINITY THEN a ELSE FloorParts(a, Unpack(a))

\* LIMB stands for every value of 2^24 and above
Clamp(n) == IF Len(n) > 1 THEN LIMB ELSE BigToInt(n)

TruncParts(x) == Clamp(IF x.e >= 0 THEN BigShl(x.m, x.e) ELSE BigShr(x.m, -x.e))

\* a as usize, a finite
AsUsize(a) == TruncParts(Unpack(a))

SquareMod(h, e, k) == (h * h * (IF e % 2 = 1 THEN 2 ELSE 1)) % k

RECURSIVE PowMod2(_, _)
\* 2^e % k
PowMod2(e, k) == IF e = 0 THEN 1 % k ELSE SquareMod(PowMod2(e \div 2, k), e, k)

RemParts(x, k) ==
    IF x.e >= 0
    THEN FromInt((BigDivMod(x.m, k).r * PowMod2(x.e, k)) % k)
    ELSE RoundPack(BigAdd(BigShl(BigFromInt(BigDivMod(BigShr(x.m, -x.e), k).r), -x.e),
                          BigLow(x.m, -x.e)), x.e)

\* a % b (fmod), a finite, b an integer in 1 .. 127 (b is base_f64): exact
FRem(a, b) == RemParts(Unpack(a), AsUsize(b))

\* f64 methods on self, which may carry a sign and may be NaN
Abs(f) == BigLow(f, 63)

is_sign_negative(f) == ~is_pos(f)

is_nan(f) == BigCmp(Abs(f), K_INFINITY) = 1

is_infinite(f) == Abs(f) = K_INFINITY

\* a comparison of bit patterns, which tells -0.0 from 0.0
IsPositiveZero(f) == f = ZERO

\* self == 0.0
IsZero(f) == Abs(f) = ZERO

(***************************************************************************)
(* lib.rs: <f64 as ToRadixStr>::to_radix_str                               *)
(***************************************************************************)
MIN_BASE == 2

MAX_BASE == 36

CHARS_UPPERCASE ==
    <<48, 49, 50, 51, 52, 53, 54, 55, 56, 57, 65, 66, 67, 68, 69, 70, 71, 72, 73, 74,
      75, 76, 77, 78, 79, 80, 81, 82, 83, 84, 85, 86, 87, 88, 89, 90>>

\* a char is its code point
CHARS ==
    <<48, 49, 50, 51, 52, 53, 54, 55, 56, 57, 97, 98, 99, 100, 101, 102, 103, 104,
      105, 106, 107, 108, 109, 110, 111, 112, 113, 114, 115, 116, 117, 118, 119,
      120, 121, 122>>

CH_0 == 48

CH_9 == 57

CH_a == 97

CH_DOT == 46

CH_MINUS == 45

STR_NAN == <<78, 97, 78>>

STR_ZERO == <<48>>

STR_INFINITY == <<73, 110, 102, 105, 110, 105, 116, 121>>

STR_NEG_INFINITY == <<45>> \o STR_INFINITY

BUFFER_LEN == 2200

\* the largest Base (u8)
U8_MAX == 255

Ok(s) == [kind |-> "Ok", str |-> s, base |-> 0]

Err(b) == [kind |-> "Err", str |-> <<>>, base |-> b]

NoResult == [kind |-> "None", str |-> <<>>, base |-> 0]

\* the call unwound: an index out of bounds or an arithmetic overflow
Panicked == [kind |-> "Panic", str |-> <<>>, base |-> 0]

VARIABLES
    self,             \* the receiver, a 64-bit pattern
    base,             \* the argument, a u8
    pc,               \* where the call stands
    buf,              \* the cells of buf written so far (every other cell holds '\0')
    int_cursor,
    fraction_cursor,
    integer,
    fraction,
    delta,
    result,           \* what the call returned
    prev              \* what the call for the negated value returned, see CallAbs

vars == <<self, base, pc, buf, int_cursor, fraction_cursor, integer, fraction, delta,
          result, prev>>

locals == <<buf, int_cursor, fraction_cursor, integer, fraction, delta>>

base_f64 == FromInt(base)

\* buf[i] = c
Write(b, i, c) == [j \in (DOMAIN b) \cup {i} |-> IF j = i THEN c ELSE b[j]]

Return(r) ==
    /\ pc' = "done"
    /\ result' = r

Panic ==
    /\ pc' = "panicked"
    /\ result' = Panicked
    /\ UNCHANGED locals

\* the half-open range MIN_BASE..MAX_BASE
InRangeExclusive(b) == b >= MIN_BASE /\ b < MAX_BASE

\* line 111: (MIN_BASE..=MAX_BASE).contains(&base)
InRange(b) == b >= MIN_BASE /\ b <= MAX_BASE

\* lines 107-170: the base check, the literals, the split of the value and the
\* decimal point
Enter ==
    /\ pc = "call"
    /\ UNCHANGED <<self, base, prev>>
    /\ IF ~InRange(base) THEN Return(Err(base)) /\ UNCHANGED locals
       ELSE IF is_nan(self) THEN Return(Ok(STR_NAN)) /\ UNCHANGED locals
       ELSE IF IsZero(self) THEN Return(Ok(STR_ZERO)) /\ UNCHANGED locals
       ELSE IF is_infinite(self)
       THEN Return(Ok(IF is_pos(self) THEN STR_INFINITY ELSE STR_NEG_INFINITY))
            /\ UNCHANGED locals
       ELSE \E value \in {Abs(self)} :
            \E i0 \in {FFloor(value)} :
            \E f0 \in {FSub(value, i0)} :
            \E d0 \in {FMax(FMul(FSub(next_float(value), value), HALF), next_float(ZERO))} :
                /\ integer' = i0
                /\ fraction' = f0
                /\ delta' = d0
                /\ int_cursor' = BUFFER_LEN \div 2
                /\ result' = result
                /\ IF FLe(d0, f0)
                   THEN /\ buf' = Write(<<>>, BUFFER_LEN \div 2, CH_DOT)
                        /\ fraction_cursor' = BUFFER_LEN \div 2 + 1
                        /\ pc' = "fraction"
                   ELSE /\ buf' = <<>>
                        /\ fraction_cursor' = BUFFER_LEN \div 2
                        /\ pc' = "zeros"

\* line 186: the round-up test after the digit is taken out
RoundsUp(f, digit, d) ==
    /\ FLt(HALF, f) \/ (f = HALF /\ digit % 2 = 1)
    /\ FLt(ONE, FAdd(f, d))

\* lines 172-186 and 213-215: one fractional digit
FractionDigit ==
    /\ pc = "fraction"
    /\ UNCHANGED <<self, base, prev>>
    /\ \E f1 \in {FMul(fraction, base_f64)} :
       \E d1 \in {FMul(delta, base_f64)} :
       \E digit \in {AsUsize(f1)} :
           IF digit >= Len(CHARS) \/ fraction_cursor >= BUFFER_LEN THEN Panic
           ELSE \E f2 \in {FSub(f1, FromInt(digit))} :
                    /\ buf' = Write(buf, fraction_cursor, CHARS[digit + 1])
                    /\ fraction_cursor' = fraction_cursor + 1
                    /\ fraction' = f2
                    /\ delta' = d1
                    /\ pc' = IF RoundsUp(f2, digit, d1) THEN "carry"
                             ELSE IF FLt(f2, d1) THEN "zeros"
                             ELSE "fraction"
                    /\ UNCHANGED <<integer, int_cursor, result>>

\* the code point of the char taken for its digit
ReconstructAsChar(c) == c

\* lines 198-202: the digit of a char (a char below its '0' or 'a' overflows the
\* u32 subtraction)
Reconstruct(c) == IF c > CH_9 THEN c - CH_a + 10 ELSE c - CH_0

\* lines 188-210: one step of the walk back over the written digits
CarryWalk ==
    /\ pc = "carry"
    /\ UNCHANGED <<self, base, prev>>
    /\ \E fc \in {fraction_cursor - 1} :
           IF fc = BUFFER_LEN \div 2
           THEN /\ integer' = FAdd(integer, ONE)
                /\ fraction_cursor' = fc
                /\ pc' = "zeros"
                /\ UNCHANGED <<buf, int_cursor, fraction, delta, result>>
           ELSE \E digit \in {Reconstruct(buf[fc])} :
                    IF digit < 0 THEN Panic
                    ELSE IF digit + 1 < base
                    THEN /\ buf' = Write(buf, fc, CHARS[digit + 1 + 1])
                         /\ fraction_cursor' = fc + 1
                         /\ pc' = "zeros"
                         /\ UNCHANGED <<integer, int_cursor, fraction, delta, result>>
                    ELSE /\ fraction_cursor' = fc
                         /\ pc' = "carry"
                         /\ UNCHANGED <<buf, integer, int_cursor, fraction, delta, result>>

\* lines 219-224: the test of the while loop and, when it holds, its body
ZeroFill ==
    /\ pc = "zeros"
    /\ UNCHANGED <<self, base, prev>>
    /\ \E quotient \in {FDiv(integer, base_f64)} :
       IF exponent(quotient) > 0
       THEN IF int_cursor = 0 THEN Panic
            ELSE /\ integer' = quotient
                 /\ int_cursor' = int_cursor - 1
                 /\ buf' = Write(buf, int_cursor - 1, CH_0)
                 /\ pc' = "zeros"
                 /\ UNCHANGED <<fraction_cursor, fraction, delta, result>>
       ELSE /\ pc' = "digits"
            /\ UNCHANGED <<locals, result>>

\* lines 226-235: one integer digit
IntegerDigit ==
    /\ pc = "digits"
    /\ UNCHANGED <<self, base, prev>>
    /\ \E remainder \in {FRem(integer, base_f64)} :
       \E next \in {FDiv(FSub(integer, remainder), base_f64)} :
           IF int_cursor = 0 THEN Panic
           ELSE /\ int_cursor' = int_cursor - 1
                /\ buf' = Write(buf, int_cursor - 1, CHARS[AsUsize(remainder) + 1])
                /\ integer' = next
                /\ pc' = IF FLe(next, ZERO) THEN "sign" ELSE "digits"
                /\ UNCHANGED <<fraction_cursor, fraction, delta, result>>

\* lines 243-247: the chars of b from ic up to fc
Collect(b, ic, fc) == [i \in 1 .. (fc - ic) |-> b[ic + i - 1]]

\* lines 237-248: the sign and the result
Finish ==
    /\ pc = "sign"
    /\ UNCHANGED <<self, base, prev>>
    /\ IF is_sign_negative(self)
       THEN IF int_cursor = 0 THEN Panic
            ELSE /\ int_cursor' = int_cursor - 1
                 /\ buf' = Write(buf, int_cursor - 1, CH_MINUS)
                 /\ Return(Ok(Collect(buf', int_cursor', fraction_cursor)))
                 /\ UNCHANGED <<fraction_cursor, integer, fraction, delta>>
       ELSE /\ Return(Ok(Collect(buf, int_cursor, fraction_cursor)))
            /\ UNCHANGED locals

\* a caller that has the result for a negative finite receiver calls again with
\* self.abs() and the same base, keeping the first result
CallAbs ==
    /\ pc \in {"done", "panicked"}
    /\ prev = NoResult
    /\ InRange(base)
    /\ is_sign_negative(self) /\ ~is_nan(self) /\ ~is_infinite(self) /\ ~IsZero(self)
    /\ prev' = result
    /\ self' = Abs(self)
    /\ pc' = "call"
    /\ result' = NoResult
    /\ buf' = <<>>
    /\ int_cursor' = BUFFER_LEN \div 2
    /\ fraction_cursor' = BUFFER_LEN \div 2
    /\ integer' = ZERO
    /\ fraction' = ZERO
    /\ delta' = ZERO
    /\ UNCHANGED base

(***************************************************************************)
(* The receivers and bases the calls are made with.                        *)
(***************************************************************************)
\* integers 1 .. MaxInt and their negations
MaxInt == 6

\* k / 8 for k in 1 .. MaxEighths
MaxEighths == 11

Neg(f) == BigAdd(f, K_SIGN_MASK)

NAN == U64(\h7FF8, 0, 0)

F64_MAX == U64(\h7FEF, \hFFFFFF, \hFFFFFF)

\* 5e-324, the smallest positive subnormal
F64_MIN_SUBNORMAL == U64(0, 0, 1)

\* 0.123
V_0_123 == U64(\h3FBF, \h7CED91, \h6872B0)

\* 0.05217266072382676
V_TEST == U64(\h3FAA, \hB65FFF, \h1BB830)

\* 2^77 * (1 + 2047 * 2^-52) and 2^78 * (1 + 2047 * 2^-52)
V_2_77 == U64(\h44C0, 0, \h0007FF)

V_2_78 == U64(\h44D0, 0, \h0007FF)

\* 1.4, whose base-5 digits 1.14 round up to 1.2
V_1_4 == U64(\h3FF6, \h666666, \h666666)

Specials == {NAN, Neg(NAN), ZERO, Neg(ZERO), K_INFINITY, Neg(K_INFINITY)}

Ints == {FromInt(n) : n \in 1 .. MaxInt}

Eighths == {RoundPack(BigFromInt(k), -3) : k \in 1 .. MaxEighths}

ValidBases == MIN_BASE .. MAX_BASE

Inputs ==
    ((Specials \cup {ONE, Neg(ONE), V_0_123}) \X (0 .. U8_MAX))
    \cup ((Ints \cup {Neg(f) : f \in Ints} \cup Eighths) \X ValidBases)
    \cup ({V_TEST, V_1_4} \X ValidBases)
    \cup ({V_0_123, Neg(V_0_123), F64_MAX, F64_MIN_SUBNORMAL, V_2_77, Neg(V_2_77), V_2_78}
          \X {MIN_BASE, 16, MAX_BASE})

Init ==
    /\ \E in \in Inputs : self = in[1] /\ base = in[2]
    /\ pc = "call"
    /\ buf = <<>>
    /\ int_cursor = BUFFER_LEN \div 2
    /\ fraction_cursor = BUFFER_LEN \div 2
    /\ integer = ZERO
    /\ fraction = ZERO
    /\ delta = ZERO
    /\ result = NoResult
    /\ prev = NoResult

Next == Enter \/ FractionDigit \/ CarryWalk \/ ZeroFill \/ IntegerDigit \/ Finish \/ CallAbs

Spec == Init /\ [][Next]_vars

(***************************************************************************)
(* Properties.                                                             *)
(***************************************************************************)
Ended == pc \in {"done", "panicked"}

FiniteNonzero(f) == ~is_nan(f) /\ ~is_infinite(f) /\ ~IsZero(f)

Chars(s) == {s[i] : i \in DOMAIN s}

\* C1: the call returns Err carrying the base exactly when base < 2 or
\* base > 36, whatever the receiver: with such a base the first step returns
\* the error (also for NaN, zeros and infinities, never a literal), and with a
\* base in 2 .. 36 no step returns an error.
C1_InvalidBaseIffOutOfRange ==
    pc # "call" =>
        IF base < 2 \/ base > 36
        THEN pc = "done" /\ result = Err(base) /\ buf = <<>>
        ELSE result.kind # "Err"

C1_Witness ==
    /\ pc = "done"
    /\ base = 37
    /\ is_nan(self)
    /\ result = Err(37)

\* C4: for a base in 2 .. 36 the receivers NaN, +0, -0, +Infinity and
\* -Infinity return "NaN", "0", "0", "Infinity" and "-Infinity", the same for
\* every base, in the first step: no digit step runs and no cell of buf is
\* written.
C4_Literals ==
    (pc # "call" /\ base \in 2 .. 36 /\ (is_nan(self) \/ self \in Specials)) =>
        /\ pc = "done"
        /\ buf = <<>>
        /\ is_nan(self) => result = Ok(<<78, 97, 78>>)
        /\ self = ZERO => result = Ok(<<48>>)
        /\ self = Neg(ZERO) => result = Ok(<<48>>)
        /\ self = K_INFINITY => result = Ok(<<73, 110, 102, 105, 110, 105, 116, 121>>)
        /\ self = Neg(K_INFINITY) =>
               result = Ok(<<45, 73, 110, 102, 105, 110, 105, 116, 121>>)

C4_Witness ==
    /\ pc = "done"
    /\ base = 7
    /\ self = Neg(ZERO)
    /\ result = Ok(<<48>>)

\* the char of the digit d
DigitChar(d) == IF d < 10 THEN 48 + d ELSE 97 + (d - 10)

RECURSIVE Positional(_, _)
\* n in base b, most significant digit first
Positional(n, b) ==
    IF n < b THEN <<DigitChar(n)>>
    ELSE Append(Positional(n \div b, b), DigitChar(n % b))

SignChars(f) == IF is_sign_negative(f) THEN <<45>> ELSE <<>>

\* |f| is an integer in 1 .. 2^24 - 1
IsSmallInteger(f) ==
    /\ FiniteNonzero(f)
    /\ FFloor(Abs(f)) = Abs(f)
    /\ AsUsize(Abs(f)) < LIMB

\* C2: with a base in 2 .. 36 the call never panics: it returns Ok for every
\* receiver, the largest finite value and the subnormals included.
C2_Total ==
    InRange(base) =>
        /\ pc # "panicked"
        /\ pc = "done" => result.kind = "Ok"

\* C3: for a receiver whose absolute value is an integer n >= 1 and a base in
\* 2 .. 36 the call returns the positional digits of n in that base, after a
\* '-' for a negative receiver, and the zero-filling loop does not run.
C3_IntegersPositional ==
    (InRange(base) /\ IsSmallInteger(self)) =>
        /\ Ended => result = Ok(SignChars(self) \o Positional(AsUsize(Abs(self)), base))
        /\ pc = "zeros" => exponent(FDiv(integer, base_f64)) <= 0

\* tests.rs, EXPECTED: 0.05217266072382676 in the bases 2 .. 36
EXPECTED ==
    <<
       \* base 2: "0.00001101010110110010111111111111100011011101110000011"
       <<48, 46, 48, 48, 48, 48, 49, 49, 48, 49, 48, 49, 48, 49, 49, 48, 49, 49, 48, 48, 49,
         48, 49, 49, 49, 49, 49, 49, 49, 49, 49, 49, 49, 49, 49, 48, 48, 48, 49, 49, 48, 49,
         49, 49, 48, 49, 49, 49, 48, 48, 48, 48, 48, 49, 49>>,
       \* base 3: "0.00110200022020012220120101220020111"
       <<48, 46, 48, 48, 49, 49, 48, 50, 48, 48, 48, 50, 50, 48, 50, 48, 48, 49, 50, 50, 50,
         48, 49, 50, 48, 49, 48, 49, 50, 50, 48, 48, 50, 48, 49, 49, 49>>,
       \* base 4: "0.003111230233333320313130012"
       <<48, 46, 48, 48, 51, 49, 49, 49, 50, 51, 48, 50, 51, 51, 51, 51, 51, 51, 50, 48, 51,
         49, 51, 49, 51, 48, 48, 49, 50>>,
       \* base 5: "0.0112300443304443032401333"
       <<48, 46, 48, 49, 49, 50, 51, 48, 48, 52, 52, 51, 51, 48, 52, 52, 52, 51, 48, 51, 50,
         52, 48, 49, 51, 51, 51>>,
       \* base 6: "0.015134100114141415452"
       <<48, 46, 48, 49, 53, 49, 51, 52, 49, 48, 48, 49, 49, 52, 49, 52, 49, 52, 49, 53, 52,
         53, 50>>,
       \* base 7: "0.023616030022055516622"
       <<48, 46, 48, 50, 51, 54, 49, 54, 48, 51, 48, 48, 50, 50, 48, 53, 53, 53, 49, 54, 54,
         50, 50>>,
       \* base 8: "0.032554577770673406"
       <<48, 46, 48, 51, 50, 53, 53, 52, 53, 55, 55, 55, 55, 48, 54, 55, 51, 52, 48, 54>>,
       \* base 9: "0.042026618651180643"
       <<48, 46, 48, 52, 50, 48, 50, 54, 54, 49, 56, 54, 53, 49, 49, 56, 48, 54, 52, 51>>,
       \* base 10: "0.05217266072382676"
       <<48, 46, 48, 53, 50, 49, 55, 50, 54, 54, 48, 55, 50, 51, 56, 50, 54, 55, 54>>,
       \* base 11: "0.06349506198377117"
       <<48, 46, 48, 54, 51, 52, 57, 53, 48, 54, 49, 57, 56, 51, 55, 55, 49, 49, 55>>,
       \* base 12: "0.0761a289186a5058"
       <<48, 46, 48, 55, 54, 49, 97, 50, 56, 57, 49, 56, 54, 97, 53, 48, 53, 56>>,
       \* base 13: "0.08a814611c1a0636"
       <<48, 46, 48, 56, 97, 56, 49, 52, 54, 49, 49, 99, 49, 97, 48, 54, 51, 54>>,
       \* base 14: "0.0a3239cda0bc978"
       <<48, 46, 48, 97, 51, 50, 51, 57, 99, 100, 97, 48, 98, 99, 57, 55, 56>>,
       \* base 15: "0.0bb139330b51876"
       <<48, 46, 48, 98, 98, 49, 51, 57, 51, 51, 48, 98, 53, 49, 56, 55, 54>>,
       \* base 16: "0.0d5b2fff8ddc18"
       <<48, 46, 48, 100, 53, 98, 50, 102, 102, 102, 56, 100, 100, 99, 49, 56>>,
       \* base 17: "0.0f158c3647753f"
       <<48, 46, 48, 102, 49, 53, 56, 99, 51, 54, 52, 55, 55, 53, 51, 102>>,
       \* base 18: "0.0gg4fe405e39cb"
       <<48, 46, 48, 103, 103, 52, 102, 101, 52, 48, 53, 101, 51, 57, 99, 98>>,
       \* base 19: "0.0ifg3cei7ia9h"
       <<48, 46, 48, 105, 102, 103, 51, 99, 101, 105, 55, 105, 97, 57, 104>>,
       \* base 20: "0.10h7ca5eabje8"
       <<48, 46, 49, 48, 104, 55, 99, 97, 53, 101, 97, 98, 106, 101, 56>>,
       \* base 21: "0.1203c8f80ka74"
       <<48, 46, 49, 50, 48, 51, 99, 56, 102, 56, 48, 107, 97, 55, 52>>,
       \* base 22: "0.135bgf5hk3ll2"
       <<48, 46, 49, 51, 53, 98, 103, 102, 53, 104, 107, 51, 108, 108, 50>>,
       \* base 23: "0.14di134k07bii"
       <<48, 46, 49, 52, 100, 105, 49, 51, 52, 107, 48, 55, 98, 105, 105>>,
       \* base 24: "0.1615f6hcdi284"
       <<48, 46, 49, 54, 49, 53, 102, 54, 104, 99, 100, 105, 50, 56, 52>>,
       \* base 25: "0.17f4nfon3e1ie"
       <<48, 46, 49, 55, 102, 52, 110, 102, 111, 110, 51, 101, 49, 105, 101>>,
       \* base 26: "0.196pgpp81pf5f"
       <<48, 46, 49, 57, 54, 112, 103, 112, 112, 56, 49, 112, 102, 53, 102>>,
       \* base 27: "0.1b0oihjj5ijc"
       <<48, 46, 49, 98, 48, 111, 105, 104, 106, 106, 53, 105, 106, 99>>,
       \* base 28: "0.1cp86j9br2n3"
       <<48, 46, 49, 99, 112, 56, 54, 106, 57, 98, 114, 50, 110, 51>>,
       \* base 29: "0.1epcl695l16b"
       <<48, 46, 49, 101, 112, 99, 108, 54, 57, 53, 108, 49, 54, 98>>,
       \* base 30: "0.1gsjpjk0r2dp"
       <<48, 46, 49, 103, 115, 106, 112, 106, 107, 48, 114, 50, 100, 112>>,
       \* base 31: "0.1j48gudjoqjq"
       <<48, 46, 49, 106, 52, 56, 103, 117, 100, 106, 111, 113, 106, 113>>,
       \* base 32: "0.1ldivvsdrgc"
       <<48, 46, 49, 108, 100, 105, 118, 118, 115, 100, 114, 103, 99>>,
       \* base 33: "0.1nqulj60i8vr"
       <<48, 46, 49, 110, 113, 117, 108, 106, 54, 48, 105, 56, 118, 114>>,
       \* base 34: "0.1qak6wn4rq5o"
       <<48, 46, 49, 113, 97, 107, 54, 119, 110, 52, 114, 113, 53, 111>>,
       \* base 35: "0.1svvkxr2efv"
       <<48, 46, 49, 115, 118, 118, 107, 120, 114, 50, 101, 102, 118>>,
       \* base 36: "0.1vm61aaabtc"
       <<48, 46, 49, 118, 109, 54, 49, 97, 97, 97, 98, 116, 99>>
    >>

\* "0.1f7ced916872b"
EXPECTED_0_123_HEX == <<48, 46, 49, 102, 55, 99, 101, 100, 57, 49, 54, 56, 55, 50, 98>>

\* the chars of s before its '.', without a leading '-'
IntegerChars(s) ==
    LET from == IF s # <<>> /\ s[1] = 45 THEN 2 ELSE 1
        dots == {i \in DOMAIN s : s[i] = 46}
        to   == IF dots = {} THEN Len(s) ELSE (CHOOSE i \in dots : TRUE) - 1
    IN  SubSeq(s, from, to)

\* what the reference algorithm turns into integer digits: floor(|f|), and one
\* more when the fractional digits were all rounded away (the fractional loop
\* ran and the string has no '.')
ReferenceInteger(f, s) ==
    LET value == Abs(f)
        i0    == AsUsize(FFloor(value))
        f0    == FSub(value, FFloor(value))
        d0    == FMax(FMul(FSub(next_float(value), value), HALF), next_float(ZERO))
    IN  IF FLe(d0, f0) /\ 46 \notin Chars(s) THEN i0 + 1 ELSE i0

\* C5: for a finite nonzero receiver and a base in 2 .. 36 the call returns
\* the string of the reference algorithm: the listed strings for
\* 0.05217266072382676 in every base and for 0.123 in base 16, and, for a
\* receiver below 2^24, integer digits that are the positional digits of the
\* integer the reference converts.
C5_MatchesReference ==
    (Ended /\ InRange(base) /\ FiniteNonzero(self)) =>
        /\ self = V_TEST => result = Ok(EXPECTED[base - 1])
        /\ (self = V_0_123 /\ base = 16) => result = Ok(EXPECTED_0_123_HEX)
        /\ AsUsize(FFloor(Abs(self))) < LIMB =>
               /\ result.kind = "Ok"
               /\ IntegerChars(result.str) =
                      Positional(ReferenceInteger(self, result.str), base)

\* C6: a negative finite nonzero receiver returns '-' followed by what its
\* absolute value returns for the same base, and a positive finite receiver
\* returns a string without '-'.
C6_SignSymmetry ==
    /\ (Ended /\ prev # NoResult) =>
           /\ prev.kind = "Ok"
           /\ result.kind = "Ok"
           /\ prev.str = <<45>> \o result.str
    /\ (pc = "done" /\ InRange(base) /\ FiniteNonzero(self) /\ is_pos(self)) =>
           45 \notin Chars(result.str)

IsDigitOf(c, b) ==
    \/ c \in 48 .. 57 /\ c - 48 < b
    \/ c \in 97 .. 122 /\ c - 97 + 10 < b

\* an optional '-', digits of the base, and optionally a '.' between digits
MatchesGrammar(s, b) ==
    LET body == IF s # <<>> /\ s[1] = 45 THEN Tail(s) ELSE s
        dots == {i \in DOMAIN body : body[i] = 46}
    IN  /\ body # <<>>
        /\ Cardinality(dots) <= 1
        /\ \A i \in dots : 1 < i /\ i < Len(body)
        /\ \A i \in (DOMAIN body) \ dots : IsDigitOf(body[i], b)

\* C7: the string returned for a finite nonzero receiver and a base in 2 .. 36
\* is an optional '-', one or more digits, and optionally a '.' followed by one
\* or more digits, every digit one of 0-9, a-z with a value below the base; it
\* is not empty and neither starts nor ends with '.'.
C7_Grammar ==
    (pc = "done" /\ InRange(base) /\ FiniteNonzero(self)) =>
        /\ result.kind = "Ok"
        /\ MatchesGrammar(result.str, base)

C7_Witness ==
    /\ pc = "done"
    /\ self = Neg(V_0_123)
    /\ base = 16
    /\ result.kind = "Ok"
    /\ 46 \in Chars(result.str)
    /\ \E c \in Chars(result.str) : c >= 97

\* C8: the cursors stay ordered, 0 <= int_cursor <= BUFFER_LEN / 2 <=
\* fraction_cursor <= BUFFER_LEN, and every step that writes a cell finds its
\* index inside the buffer: a step that moves int_cursor left has
\* int_cursor >= 1 and a step that writes a fractional digit has
\* fraction_cursor < BUFFER_LEN.
C8_BufferBounds ==
    /\ 0 <= int_cursor /\ int_cursor <= BUFFER_LEN \div 2
    /\ BUFFER_LEN \div 2 <= fraction_cursor /\ fraction_cursor <= BUFFER_LEN
    /\ pc = "fraction" => fraction_cursor < BUFFER_LEN
    /\ (pc = "zeros" /\ exponent(FDiv(integer, base_f64)) > 0) => int_cursor >= 1
    /\ pc = "digits" => int_cursor >= 1
    /\ (pc = "sign" /\ is_sign_negative(self)) => int_cursor >= 1
    /\ \A i \in DOMAIN buf : 0 <= i /\ i < BUFFER_LEN

\* the exponent field of the pattern less the bias, -1074 for a zero field
FieldExponent(f) ==
    IF BiasedField(f) = 0 THEN -1074 ELSE BiasedField(f) - 1075

\* C9: exponent(f) is -1074 when the exponent field of f is zero and the
\* exponent field less 1075 otherwise, whatever the significand bits: checked
\* on every value the conversion passes to exponent.
C9_ExponentFromField ==
    pc = "zeros" =>
        exponent(FDiv(integer, base_f64)) = FieldExponent(FDiv(integer, base_f64))

\* the order of the phases of a call
Rank(p) ==
    CASE p = "call" -> 0
      [] p = "fraction" -> 1
      [] p = "carry" -> 2
      [] p = "zeros" -> 3
      [] p = "digits" -> 4
      [] p = "sign" -> 5
      [] OTHER -> 6

\* C10: no call runs forever: the phases of a call only move forward, and each
\* loop has a strictly monotone bounded quantity.  While fractional digits are
\* produced delta grows and stays at most the remaining fraction, which is
\* below 1; the carry walk moves left and stays right of the midpoint; integer
\* is never negative and strictly shrinks from one iteration of the
\* zero-filling loop, and of the integer-digit loop, to the next.
C10_Terminates ==
    [][/\ (pc = "fraction" => FLe(delta, fraction) /\ FLt(fraction, ONE))'
       /\ (pc = "carry" => fraction_cursor > BUFFER_LEN \div 2)'
       /\ FLe(ZERO, integer)'
       /\ ~Ended => Rank(pc) <= Rank(pc')
       /\ (pc = "fraction" /\ pc' # "panicked") => FLt(delta, delta')
       /\ (pc = "carry" /\ pc' = "carry") => fraction_cursor' < fraction_cursor
       /\ ((pc = "zeros" /\ pc' = "zeros") \/ (pc = "digits" /\ pc' = "digits"))
            => FLt(integer', integer)]_vars

C10_Witness ==
    /\ pc = "done"
    /\ result.kind = "Ok"
    /\ int_cursor < BUFFER_LEN \div 2 - 1
    /\ fraction_cursor > BUFFER_LEN \div 2 + 2

\* the digit a char of CHARS stands for
DigitValue(c) == IF c >= 97 THEN c - 97 + 10 ELSE c - 48

\* what one step of the carry walk does, the cell of a digit equal to base - 1
\* holding wrapped afterwards (its own char when wrapped is -1): the walk
\* neither returns to digit generation nor touches int_cursor or a cell at or
\* left of the midpoint; at the midpoint integer gains 1 and the walk stops; a
\* digit below base - 1 gains 1, stays in the output, and the walk stops; a
\* digit equal to base - 1 leaves the output and the walk goes on one cell left
WalkStep(wrapped) ==
    pc = "carry" =>
        /\ pc' \in {"carry", "zeros"}
        /\ int_cursor' = int_cursor
        /\ DOMAIN buf' = DOMAIN buf
        /\ \A i \in DOMAIN buf : i <= BUFFER_LEN \div 2 => buf'[i] = buf[i]
        /\ IF fraction_cursor - 1 = BUFFER_LEN \div 2
           THEN /\ integer' = FAdd(integer, ONE)
                /\ buf' = buf
                /\ fraction_cursor' = BUFFER_LEN \div 2
                /\ pc' = "zeros"
           ELSE IF DigitValue(buf[fraction_cursor - 1]) < base - 1
           THEN /\ buf' = [buf EXCEPT ![fraction_cursor - 1] =
                              DigitChar(DigitValue(buf[fraction_cursor - 1]) + 1)]
                /\ fraction_cursor' = fraction_cursor
                /\ integer' = integer
                /\ pc' = "zeros"
           ELSE /\ buf' = [buf EXCEPT ![fraction_cursor - 1] =
                              IF wrapped = -1 THEN buf[fraction_cursor - 1] ELSE wrapped]
                /\ fraction_cursor' = fraction_cursor - 1
                /\ integer' = integer
                /\ pc' = "carry"

\* C11 as stated: in the carry walk a digit below base - 1 is incremented and
\* the walk stops, a digit equal to base - 1 wraps to '0' and the walk goes on
\* one cell left, at the midpoint integer gains 1 and the walk stops; the walk
\* touches only fractional cells and digit generation ends after it.
C11_WrapsToZero == [][WalkStep(48)]_vars

\* C11: as above, except that the cell of a digit equal to base - 1 keeps its
\* char: the cursor moves left of it, which drops the digit from the output.
C11_CarryWalk == [][WalkStep(-1)]_vars

\* 1.4 in base 5: the walk dropped the 4 of "1.14" and made its 1 a 2
C11_Witness ==
    /\ pc = "zeros"
    /\ fraction_cursor = BUFFER_LEN \div 2 + 2
    /\ fraction_cursor \in DOMAIN buf
    /\ DigitValue(buf[fraction_cursor]) = base - 1
    /\ buf[fraction_cursor - 1] = 50

(***************************************************************************)
(* next_float called on its own, with any bit pattern.                     *)
(***************************************************************************)
\* the low significand bits of the arguments run over 0 .. MaxLow
MaxLow == 15

\* both signs; the exponent fields 0, 1, 0x7FE and 0x7FF; small significands
NextFloatArgs ==
    {U64(h, 0, l) : h \in {0, \h0010, \h7FE0, \h7FF0, \h8000, \h8010, \hFFE0, \hFFF0},
                    l \in 0 .. MaxLow}

\* the f64 a call of next_float returned
Returned(f) == [kind |-> "f64", str |-> <<>>, base |-> 0, bits |-> f]

NextFloatInit ==
    /\ self \in NextFloatArgs
    /\ pc = "next_float"
    /\ base = MIN_BASE
    /\ buf = <<>>
    /\ int_cursor = BUFFER_LEN \div 2
    /\ fraction_cursor = BUFFER_LEN \div 2
    /\ integer = ZERO
    /\ fraction = ZERO
    /\ delta = ZERO
    /\ result = NoResult
    /\ prev = NoResult

\* f64_util.rs, lines 84-101: the call next_float(self)
NextFloatCall ==
    /\ pc = "next_float"
    /\ pc' = "returned"
    /\ result' = Returned(next_float(self))
    /\ UNCHANGED <<self, base, prev, locals>>

NextFloatSpec == NextFloatInit /\ [][NextFloatCall]_vars

\* -5e-324, the negative value of the smallest nonzero magnitude
NEG_MIN_SUBNORMAL == U64(\h8000, 0, 1)

\* C12: next_float of the pattern 0x8000000000000001 returns the pattern
\* 0x0000000000000000 (positive zero), and next_float of +Infinity returns
\* +Infinity.
C12_NextFloatEdges ==
    pc = "returned" =>
        /\ self = NEG_MIN_SUBNORMAL => result.bits = ZERO
        /\ self = K_INFINITY => result.bits = K_INFINITY

\* C13: once the fractional digits are written the last one kept is not '0',
\* so a returned string with a '.' ends in a digit of the base other than '0';
\* the string has a '.' exactly when fraction_cursor ends right of the
\* midpoint, with at least one digit after it, so a walk that carried into the
\* integer part (fraction_cursor back at the midpoint) leaves neither a '.'
\* nor a fractional digit.
C13_NoTrailingZero ==
    (InRange(base) /\ FiniteNonzero(self)) =>
        /\ (pc \in {"zeros", "digits", "sign"} /\ fraction_cursor > BUFFER_LEN \div 2) =>
               /\ fraction_cursor >= BUFFER_LEN \div 2 + 2
               /\ buf[fraction_cursor - 1] \notin {48, 46}
        /\ (pc = "done" /\ result.kind = "Ok") =>
               /\ 46 \in Chars(result.str) <=> fraction_cursor > BUFFER_LEN \div 2
               /\ 46 \in Chars(result.str) =>
                      /\ result.str[Len(result.str)] # 48
                      /\ IsDigitOf(result.str[Len(result.str)], base)

\* 1.4 in base 5 returns "1.2": the round-up dropped the last digit written
C13_Witness ==
    /\ pc = "done"
    /\ self = V_1_4
    /\ base = 5
    /\ result = Ok(<<49, 46, 50>>)

====
